---- MODULE Spec2Model ----
(***************************************************************************)
(* A model of src/src/wifi-device.ts: the WifiDevice that correlates       *)
(* NetworkManager AccessPoint objects with wpa_supplicant BSS objects.     *)
(*                                                                         *)
(* The device's fields are kept in one record, dev, so that each handler   *)
(* is an operator from device state to device state.  The same operators   *)
(* drive a second record, ser, which runs every handler to completion at   *)
(* the moment its event is delivered (the serial reference execution).     *)
(***************************************************************************)
EXTENDS Integers, Sequences, FiniteSets, TLC

\* ------------------------------------------------------------------ bounds
MaxEvents == 3      \* live signals delivered after construction
MaxBootBss == 1     \* length of the supplicant's BSSs list at bootstrap
MaxBootOnlyBss == 2 \* the same when the bootstrap is examined alone (SpecBoot)
MaxTokens == 2      \* tokens in one list of a security dictionary
MaxBootAps == 2     \* length of the device's AccessPoints list at bootstrap

\* ------------------------------------------------------------------ inputs
ApPaths == {"/ap/1", "/ap/2"}
BssPaths == {"/bss/1", "/bss/2"}
Bssids == {"AA:BB:CC:DD:EE:01", "AA:BB:CC:DD:EE:02"}

\* Map.get() of an absent key
Undefined == "undefined"

\* An optional value (a property that may be undefined) is a sequence of
\* length 0 or 1.
None == << >>
Some(v) == << v >>

\* ------------------------------------------------------- JavaScript Map
MapGet(m, k) == IF k \in DOMAIN m THEN m[k] ELSE Undefined
MapSet(m, k, v) == [x \in (DOMAIN m) \cup {k} |-> IF x = k THEN v ELSE m[x]]
MapDelete(m, k) == [x \in (DOMAIN m) \ {k} |-> m[x]]
EmptyMap == [x \in {} |-> Undefined]

\* ------------------------------------------------ NM80211ApSecurityFlags
NM_802_11_AP_SEC_NONE == 0
NM_802_11_AP_SEC_PAIR_WEP40 == 1
NM_802_11_AP_SEC_PAIR_WEP104 == 2
NM_802_11_AP_SEC_PAIR_TKIP == 4
NM_802_11_AP_SEC_PAIR_CCMP == 8
NM_802_11_AP_SEC_GROUP_WEP40 == 16
NM_802_11_AP_SEC_GROUP_WEP104 == 32
NM_802_11_AP_SEC_GROUP_TKIP == 64
NM_802_11_AP_SEC_GROUP_CCMP == 128
NM_802_11_AP_SEC_KEY_MGMT_PSK == 256
NM_802_11_AP_SEC_KEY_MGMT_802_1X == 512
NM_802_11_AP_SEC_KEY_MGMT_SAE == 1024
NM_802_11_AP_SEC_KEY_MGMT_OWE == 2048
NM_802_11_AP_SEC_KEY_MGMT_OWE_TM == 4096
NM_802_11_AP_SEC_KEY_MGMT_EAP_SUITE_B_192 == 8192

\* + in place of |
Plus(a, b) == a + b

\* a | b on non-negative integers
RECURSIVE BitOr(_, _)
BitOr(a, b) ==
    IF a = 0 THEN b
    ELSE IF b = 0 THEN a
    ELSE (IF (a % 2) + (b % 2) > 0 THEN 1 ELSE 0) + 2 * BitOr(a \div 2, b \div 2)

pairToFlags(str) ==
    CASE str = "wep40" -> NM_802_11_AP_SEC_PAIR_WEP40
      [] str = "wep104" -> NM_802_11_AP_SEC_PAIR_WEP104
      [] str = "tkip" -> NM_802_11_AP_SEC_PAIR_TKIP
      [] str = "ccmp" -> NM_802_11_AP_SEC_PAIR_CCMP
      [] OTHER -> NM_802_11_AP_SEC_NONE

groupToFlags(str) ==
    CASE str = "wep40" -> NM_802_11_AP_SEC_GROUP_WEP40
      [] str = "wep104" -> NM_802_11_AP_SEC_GROUP_WEP104
      [] str = "tkip" -> NM_802_11_AP_SEC_GROUP_TKIP
      [] str = "ccmp" -> NM_802_11_AP_SEC_GROUP_CCMP
      [] OTHER -> NM_802_11_AP_SEC_NONE

keyMgmtToFlags(str) ==
    CASE str = "wpa-psk" -> NM_802_11_AP_SEC_KEY_MGMT_PSK
      [] str = "wpa-eap" -> NM_802_11_AP_SEC_KEY_MGMT_802_1X
      [] str = "sae" -> NM_802_11_AP_SEC_KEY_MGMT_SAE
      [] str = "owe" -> NM_802_11_AP_SEC_KEY_MGMT_OWE
      [] str = "owe-tm" -> NM_802_11_AP_SEC_KEY_MGMT_OWE_TM
      [] str = "wpa-eap-suite-b-192" -> NM_802_11_AP_SEC_KEY_MGMT_EAP_SUITE_B_192
      [] OTHER -> NM_802_11_AP_SEC_NONE

\* keyMgmtItems.forEach(item => flags |= keyMgmtToFlags(item))
RECURSIVE OrKeyMgmt(_, _)
OrKeyMgmt(items, flags) ==
    IF items = << >> THEN flags
    ELSE OrKeyMgmt(Tail(items), BitOr(flags, keyMgmtToFlags(Head(items))))

\* pairwiseItems.forEach(item => flags |= pairToFlags(item))
RECURSIVE OrPairwise(_, _)
OrPairwise(items, flags) ==
    IF items = << >> THEN flags
    ELSE OrPairwise(Tail(items), BitOr(flags, pairToFlags(Head(items))))

\* A security dictionary is a record of three optional entries: KeyMgmt and
\* Pairwise hold a list of tokens, Group holds one token.
securityFromDict(security) ==
    LET f0 == NM_802_11_AP_SEC_NONE
        f1 == IF security.KeyMgmt # None
              THEN OrKeyMgmt(security.KeyMgmt[1], f0) ELSE f0
        f2 == IF security.Pairwise # None
              THEN OrPairwise(security.Pairwise[1], f1) ELSE f1
        f3 == IF security.Group # None
              THEN BitOr(f2, groupToFlags(security.Group[1])) ELSE f2
    IN f3

\* --------------------------------------------------- what the sources send
\* Ssid bytes of the access point object at a path
SsidBytes(apPath) ==
    IF apPath = "/ap/1" THEN << 72, 111, 109, 101 >> ELSE << 67, 97, 102, 101 >>

\* The property bag GetAll returns for an access point whose HwAddress is hw
RawAccessPointProperties(apPath, hw) ==
    [Ssid |-> SsidBytes(apPath), HwAddress |-> hw, Frequency |-> 2412,
     LastSeen |-> 0, WpaFlags |-> 0, RsnFlags |-> 0]

\* Outcomes of a property fetch: None is a failed fetch, Some(hw) a bag
FetchResults == {None} \cup {Some(hw) : hw \in Bssids}

PskCcmp == [KeyMgmt |-> Some(<< "wpa-psk" >>), Pairwise |-> Some(<< "ccmp" >>),
            Group |-> Some("ccmp")]
SaeOnly == [KeyMgmt |-> Some(<< "sae", "wpa3-unknown" >>), Pairwise |-> None,
            Group |-> None]

\* params[0] of a BSS PropertiesChanged signal: every entry is optional
ChangeSets ==
    { [Age |-> None, Frequency |-> None, WPA |-> None, RSN |-> None],
      [Age |-> None, Frequency |-> Some(5180), WPA |-> None, RSN |-> None],
      [Age |-> Some(5), Frequency |-> Some(5180), WPA |-> Some(PskCcmp), RSN |-> None],
      [Age |-> None, Frequency |-> None, WPA |-> Some(PskCcmp), RSN |-> Some(SaeOnly)] }

\* Outcomes of fs.readFile('/proc/uptime'): None is a failed read, otherwise
\* the first field of the file, seconds with hundredths ("100.53 ...")
UptimeResults == {None, Some([whole |-> 100, frac |-> 53])}

\* ------------------------------------------------------------------ util
CharOf(code) ==
    CASE code = 72 -> "H" [] code = 111 -> "o" [] code = 109 -> "m"
      [] code = 101 -> "e" [] code = 67 -> "C" [] code = 97 -> "a"
      [] code = 102 -> "f" [] OTHER -> "?"

RECURSIVE byteArrayToString(_)
byteArrayToString(bytes) ==
    IF bytes = << >> THEN ""
    ELSE CharOf(Head(bytes)) \o byteArrayToString(Tail(bytes))

\* ----------------------------------------------------------- device state
\* accessPoints       _accessPoints: path -> address of the record object
\* heap               the record objects, by address (objects are shared by
\*                    reference between snapshots)
\* bssListeners       _bssListeners: key -> subscription (index into subs)
\* bssPathMap         _bssPathMap: one Map holding bssid -> path and path -> bssid
\* accessPointPathMap _accessPointPathMap, likewise
\* bssInterfaces      _bssInterfaces: bssid -> the BSS object the proxy is for
\* subs               every listener registered for a BSS PropertiesChanged
\*                    signal: its closure's bssid, its interface, whether it
\*                    is still subscribed
\* published          the values _accessPointsSubject has emitted, each with a
\*                    copy of what the subscriber saw when it was emitted
EmptyDevice ==
    [accessPoints |-> EmptyMap, heap |-> << >>, bssListeners |-> EmptyMap,
     bssPathMap |-> EmptyMap, accessPointPathMap |-> EmptyMap,
     bssInterfaces |-> EmptyMap, subs |-> << >>, published |-> << >>]

\* The records a snapshot object shows to whoever holds it
Deref(d, snap) == [p \in DOMAIN snap |-> d.heap[snap[p]]]

\* _accessPointsSubject.next(this._accessPoints)
Publish(d) ==
    [d EXCEPT !.published =
        Append(@, [snap |-> d.accessPoints, seen |-> Deref(d, d.accessPoints)])]

\* The record built from a fetched property bag: Ssid decoded to text
AccessPointRecord(raw) == [raw EXCEPT !.Ssid = byteArrayToString(raw.Ssid)]

\* BaseDevice.listenSignal(iface, 'PropertiesChanged', handler): registers one
\* more listener on the interface; the handle it returns is the listener's
\* index.  closure is the bssid the handler closes over.
listenSignal(d, iface, closure) ==
    [d EXCEPT !.subs = Append(@, [bssid |-> closure, iface |-> iface, live |-> TRUE])]

\* listenerRef.unsubscribe()
unsubscribe(d, listenerRef) == [d EXCEPT !.subs[listenerRef].live = FALSE]

\* _listenForBssPropertyChanges(bssid): the handle listenSignal returns is
\* stored under the bssid, over whatever handle was stored there.
listenForBssPropertyChanges(d, bssid) ==
    IF bssid \notin DOMAIN d.bssInterfaces THEN d
    ELSE LET listenerRef == Len(d.subs) + 1
         IN [listenSignal(d, d.bssInterfaces[bssid], bssid) EXCEPT
                !.bssListeners = MapSet(@, bssid, listenerRef)]

\* getBSSs, one pass of the loop body for a BSS whose BSSID read gave bssid
getBSSsStep(d, bssPath, bssid) ==
    [d EXCEPT
        !.bssPathMap = MapSet(MapSet(@, bssid, bssPath), bssPath, bssid),
        !.bssInterfaces = MapSet(@, bssid, bssPath)]

\* The loop body without its set of the path -> identity key
getAccessPointDataStepOneWay(d, apPath, raw) ==
    [d EXCEPT
        !.heap = Append(@, AccessPointRecord(raw)),
        !.accessPoints = MapSet(@, apPath, Len(d.heap) + 1),
        !.accessPointPathMap = MapSet(@, raw.HwAddress, apPath)]

\* getAccessPointDataFromPaths, one pass of the loop body; the record is
\* written into initialAccessPoints in place
getAccessPointDataStep(d, apPath, raw) ==
    [d EXCEPT
        !.heap = Append(@, AccessPointRecord(raw)),
        !.accessPoints = MapSet(@, apPath, Len(d.heap) + 1),
        !.accessPointPathMap =
            MapSet(MapSet(@, raw.HwAddress, apPath), apPath, raw.HwAddress)]

\* The constructor: the subject starts with the initial map, then
\* _listenForBss subscribes to every bssid of _bssInterfaces.
RECURSIVE ListenForAll(_, _)
ListenForAll(d, keys) ==
    IF keys = {} THEN d
    ELSE LET k == CHOOSE x \in keys : TRUE
         IN ListenForAll(listenForBssPropertyChanges(d, k), keys \ {k})

Constructor(d) ==
    ListenForAll(Publish([d EXCEPT !.bssListeners = EmptyMap]), DOMAIN d.bssInterfaces)

\* AccessPointAdded handler after its two awaits; fetched is the outcome of
\* objectInterface + getAllProperties (None: one of them threw, and the catch
\* block logs and returns)
AccessPointAddedHandler(d, apPath, fetched) ==
    IF fetched = None THEN d
    ELSE LET raw == RawAccessPointProperties(apPath, fetched[1])
             bssid == raw.HwAddress
             d1 == [d EXCEPT
                      !.accessPointPathMap =
                          MapSet(MapSet(@, bssid, apPath), apPath, bssid),
                      !.heap = Append(@, AccessPointRecord(raw)),
                      !.accessPoints = MapSet(@, apPath, Len(d.heap) + 1)]
         IN Publish(d1)

\* The handler without its delete of the path key
AccessPointRemovedKeepsPathKey(d, apPath) ==
    LET filteredAccessPoints == MapDelete(d.accessPoints, apPath)
        bssid == MapGet(d.accessPointPathMap, apPath)
        m2 == IF bssid # Undefined THEN MapDelete(d.accessPointPathMap, bssid)
              ELSE d.accessPointPathMap
    IN Publish([d EXCEPT !.accessPointPathMap = m2,
                         !.accessPoints = filteredAccessPoints])

\* The handler clearing the index when the path has no identity
AccessPointRemovedClearsIndex(d, apPath) ==
    LET filteredAccessPoints == MapDelete(d.accessPoints, apPath)
        bssid == MapGet(d.accessPointPathMap, apPath)
        m1 == MapDelete(d.accessPointPathMap, apPath)
        m2 == IF bssid # Undefined THEN MapDelete(m1, bssid) ELSE EmptyMap
    IN Publish([d EXCEPT !.accessPointPathMap = m2,
                         !.accessPoints = filteredAccessPoints])

\* AccessPointRemoved handler (no await: it runs to completion when invoked)
AccessPointRemovedHandler(d, apPath) ==
    LET filteredAccessPoints == MapDelete(d.accessPoints, apPath)
        bssid == MapGet(d.accessPointPathMap, apPath)
        m1 == MapDelete(d.accessPointPathMap, apPath)
        m2 == IF bssid # Undefined THEN MapDelete(m1, bssid) ELSE m1
    IN Publish([d EXCEPT !.accessPointPathMap = m2,
                         !.accessPoints = filteredAccessPoints])

\* BSSAdded handler after its two awaits; ok is whether getProxyObject and
\* getInterface succeeded (otherwise the catch block logs and returns)
BSSAddedHandler(d, bssPath, bssid, ok) ==
    IF ~ok THEN d
    ELSE listenForBssPropertyChanges(
            [d EXCEPT
                !.bssInterfaces = MapSet(@, bssid, bssPath),
                !.bssPathMap = MapSet(MapSet(@, bssid, bssPath), bssPath, bssid)],
            bssid)

\* this._bssListeners.get(key): 0 stands for undefined
ListenerGet(d, key) == IF key \in DOMAIN d.bssListeners THEN d.bssListeners[key] ELSE 0

\* BSSRemoved handler (no await)
BSSRemovedHandler(d, bssPath) ==
    LET bssid == MapGet(d.bssPathMap, bssPath)
        m1 == MapDelete(d.bssPathMap, bssPath)
        m2 == IF bssid # Undefined THEN MapDelete(m1, bssid) ELSE m1
        listenerRef == ListenerGet(d, bssPath)
    IN IF listenerRef # 0
       THEN [unsubscribe(d, listenerRef) EXCEPT
                !.bssPathMap = m2,
                !.bssListeners = MapDelete(@, bssPath)]
       ELSE [d EXCEPT !.bssPathMap = m2]

\* The handler without its test of apPath
ResolveWithoutApPathTest(d, bssid) ==
    LET bssPath == MapGet(d.bssPathMap, bssid)
        apPath == MapGet(d.accessPointPathMap, bssid)
    IN IF bssPath = Undefined
       THEN [found |-> FALSE, apPath |-> Undefined, props |-> 0]
       ELSE [found |-> TRUE, apPath |-> apPath,
             props |-> IF apPath \in DOMAIN d.accessPoints
                       THEN d.accessPoints[apPath] ELSE 0]

\* PropertiesChanged handler, the two lookups and the read of the record:
\* props is the address of this._accessPoints[apPath], 0 when it is undefined
Resolve(d, bssid) ==
    LET bssPath == MapGet(d.bssPathMap, bssid)
        apPath == MapGet(d.accessPointPathMap, bssid)
    IN IF bssPath = Undefined \/ apPath = Undefined
       THEN [found |-> FALSE, apPath |-> Undefined, props |-> 0]
       ELSE [found |-> TRUE, apPath |-> apPath,
             props |-> IF apPath \in DOMAIN d.accessPoints
                       THEN d.accessPoints[apPath] ELSE 0]

\* The writes with WpaFlags written whether or not the event names WPA
PatchFieldsAlwaysWpa(d, props, params) ==
    LET d1 == IF params.Frequency # None
              THEN [d EXCEPT !.heap[props].Frequency = params.Frequency[1]] ELSE d
        d2 == [d1 EXCEPT !.heap[props].WpaFlags =
                  IF params.WPA # None THEN securityFromDict(params.WPA[1])
                  ELSE NM_802_11_AP_SEC_NONE]
        d3 == IF params.RSN # None
              THEN [d2 EXCEPT !.heap[props].RsnFlags = securityFromDict(params.RSN[1])]
              ELSE d2
    IN d3

\* The writes of Frequency, WpaFlags and RsnFlags into the record object
PatchFields(d, props, params) ==
    LET d1 == IF params.Frequency # None
              THEN [d EXCEPT !.heap[props].Frequency = params.Frequency[1]] ELSE d
        d2 == IF params.WPA # None
              THEN [d1 EXCEPT !.heap[props].WpaFlags = securityFromDict(params.WPA[1])]
              ELSE d1
        d3 == IF params.RSN # None
              THEN [d2 EXCEPT !.heap[props].RsnFlags = securityFromDict(params.RSN[1])]
              ELSE d2
    IN d3

\* The handler from the Frequency test on.  With props undefined the first
\* write that is attempted throws a TypeError out of the handler.
PatchRest(d, props, params) ==
    IF props = 0
    THEN [dev |-> d,
          outcome |-> IF params.Frequency # None \/ params.WPA # None \/ params.RSN # None
                      THEN "threw" ELSE "ok"]
    ELSE [dev |-> PatchFields(d, props, params), outcome |-> "ok"]

\* Math.round in place of parseInt
getUptimeRounded(read) ==
    IF read = None THEN None
    ELSE Some(read[1].whole + (IF read[1].frac >= 50 THEN 1 ELSE 0))

\* _getUptime: parseInt(data.split(' ')[0]) keeps the whole seconds; a failed
\* read is logged and rethrown (None)
getUptime(read) ==
    IF read = None THEN None ELSE Some(read[1].whole)

\* The handler from the moment _getUptime settles: it rethrows a failed
\* read, and the handler's await rethrows it in turn
AfterUptime(d, props, params, read) ==
    LET uptime == getUptime(read)
    IN IF uptime = None THEN [dev |-> d, outcome |-> "threw"]
       ELSE PatchRest([d EXCEPT !.heap[props].LastSeen = uptime[1] + params.Age[1]],
                      props, params)

\* Whether the handler reaches the await of _getUptime.  The target
\* props.LastSeen is evaluated before the right-hand side, so with props
\* undefined the handler throws without awaiting.
Suspends(d, bssid, params) ==
    LET r == Resolve(d, bssid)
    IN r.found /\ params.Age # None /\ r.props # 0

\* The PropertiesChanged handler of the listener whose closure holds bssid,
\* run from start to end
PropertiesChangedHandler(d, bssid, params, uptime) ==
    LET r == Resolve(d, bssid)
    IN IF ~r.found THEN [dev |-> d, outcome |-> "dropped"]
       ELSE IF params.Age # None
            THEN IF r.props = 0 THEN [dev |-> d, outcome |-> "threw"]
                 ELSE AfterUptime(d, r.props, params, uptime)
            ELSE PatchRest(d, r.props, params)

\* ------------------------------------------------------------ the machine
VARIABLES
    pc,        \* "getBSSs", "getAccessPointData": the two loops of init;
               \* "run": constructed; "failed": init threw
    boot,      \* the two lists init enumerates, and the loop index
    dev,       \* the device
    ser,       \* the device of the serial reference execution
    handlers,  \* handlers suspended at an await
    nEvents,   \* signals delivered so far
    last,      \* what the latest handler step was and how it ended
    source,    \* the access point paths that exist at NetworkManager; followed
               \* in SpecPrimary only, where the signals are the source's own
    decoded    \* a call of securityFromDict: its argument and, once it has
               \* returned, its result (SpecDecoder)

vars == << pc, boot, dev, ser, handlers, nEvents, last, source, decoded >>

\* The objects that exist at bootstrap are the first ones the source made:
\* the enumerated list is a prefix of the source's objects in path order.
BssOrder == << "/bss/1", "/bss/2" >>
ApOrder == << "/ap/1", "/ap/2" >>

BootLists(order, n) ==
    {SubSeq(order, 1, k) : k \in 0..(IF n < Len(order) THEN n ELSE Len(order))}

\* A security dictionary without any key
EmptyDict == [KeyMgmt |-> None, Pairwise |-> None, Group |-> None]

NoParams == [Age |-> None, Frequency |-> None, WPA |-> None, RSN |-> None]

Step(op, path, bssid, outcome, absent) ==
    [op |-> op, path |-> path, bssid |-> bssid, outcome |-> outcome, absent |-> absent]

Suspended(id, kind, path, bssid, fetched, ok, props, params, uptime) ==
    [id |-> id, kind |-> kind, path |-> path, bssid |-> bssid, fetched |-> fetched,
     ok |-> ok, props |-> props, params |-> params, uptime |-> uptime]

\* WifiDevice.init is entered with the lists the two sources will report
Start(nBss, nAps) ==
    /\ pc = "getBSSs"
    /\ boot \in {[bss |-> b, aps |-> a, i |-> 1] :
                    b \in BootLists(BssOrder, nBss),
                    a \in BootLists(ApOrder, nAps)}
    /\ dev = EmptyDevice
    /\ ser = EmptyDevice
    /\ handlers = {}
    /\ nEvents = 0
    /\ last = Step("none", Undefined, Undefined, "ok", FALSE)
    /\ source = {boot.aps[i] : i \in 1..Len(boot.aps)}
    /\ decoded = [security |-> EmptyDict, flags |-> None]

Init == Start(MaxBootBss, MaxBootAps)

\* init, getBSSs: one pass of the loop; a failed call throws out of init
GetBSSs ==
    /\ pc = "getBSSs"
    /\ boot.i <= Len(boot.bss)
    /\ \E bssid \in Bssids, ok \in BOOLEAN :
        LET bssPath == boot.bss[boot.i]
        IN IF ok
           THEN /\ dev' = getBSSsStep(dev, bssPath, bssid)
                /\ pc' = pc
                /\ boot' = [boot EXCEPT !.i = @ + 1]
                /\ last' = Step("getBSSs", bssPath, bssid, "ok", FALSE)
           ELSE /\ dev' = dev
                /\ pc' = "failed"
                /\ boot' = boot
                /\ last' = Step("getBSSs", bssPath, Undefined, "threw", FALSE)
    /\ ser' = dev'
    /\ UNCHANGED << handlers, nEvents, source, decoded >>

GetBSSsDone ==
    /\ pc = "getBSSs"
    /\ boot.i > Len(boot.bss)
    /\ pc' = "getAccessPointData"
    /\ boot' = [boot EXCEPT !.i = 1]
    /\ UNCHANGED << dev, ser, handlers, nEvents, last, source, decoded >>

\* init, getAccessPointDataFromPaths: one pass of the loop; a failed fetch
\* throws out of the loop and out of init
GetAccessPointDataOf(fetched) ==
    /\ pc = "getAccessPointData"
    /\ boot.i <= Len(boot.aps)
    /\ LET apPath == boot.aps[boot.i]
       IN IF fetched # None
          THEN /\ dev' = getAccessPointDataStep(
                             dev, apPath, RawAccessPointProperties(apPath, fetched[1]))
               /\ pc' = pc
               /\ boot' = [boot EXCEPT !.i = @ + 1]
               /\ last' = Step("getAccessPointData", apPath, fetched[1], "ok", FALSE)
          ELSE /\ dev' = dev
               /\ pc' = "failed"
               /\ boot' = boot
               /\ last' = Step("getAccessPointData", apPath, Undefined, "threw", FALSE)
    /\ ser' = dev'
    /\ UNCHANGED << handlers, nEvents, source, decoded >>

GetAccessPointData == \E fetched \in FetchResults : GetAccessPointDataOf(fetched)

\* init returns new WifiDevice(...)
Construct ==
    /\ pc = "getAccessPointData"
    /\ boot.i > Len(boot.aps)
    /\ pc' = "run"
    /\ dev' = Constructor(dev)
    /\ ser' = dev'
    /\ last' = Step("constructor", Undefined, Undefined, "ok", FALSE)
    /\ UNCHANGED << boot, handlers, nEvents, source, decoded >>

CanDeliver == pc = "run" /\ nEvents < MaxEvents

\* An AccessPointAdded signal arrives: the handler starts and suspends at
\* objectInterface / getAllProperties.  The outcome of the fetch is fixed
\* here so that the serial execution sees the same one.
AccessPointAdded ==
    /\ CanDeliver
    /\ \E apPath \in ApPaths, fetched \in FetchResults :
        /\ handlers' = handlers \cup
              {Suspended(nEvents + 1, "AccessPointAdded", apPath, Undefined,
                         fetched, TRUE, 0, NoParams, None)}
        /\ ser' = AccessPointAddedHandler(ser, apPath, fetched)
        /\ last' = Step("AccessPointAdded", apPath, Undefined, "awaiting", FALSE)
    /\ nEvents' = nEvents + 1
    /\ UNCHANGED << pc, boot, dev, source, decoded >>

\* The fetch settles and the AccessPointAdded handler runs to its end
AccessPointAddedDone ==
    /\ \E h \in handlers :
        /\ h.kind = "AccessPointAdded"
        /\ dev' = AccessPointAddedHandler(dev, h.path, h.fetched)
        /\ handlers' = handlers \ {h}
        /\ last' = IF h.fetched = None
                   THEN Step("AccessPointAdded", h.path, Undefined, "caught", FALSE)
                   ELSE Step("AccessPointAdded", h.path, h.fetched[1], "ok", FALSE)
    /\ UNCHANGED << pc, boot, ser, nEvents, source, decoded >>

AccessPointRemovedOf(apPath) ==
    /\ CanDeliver
    /\ dev' = AccessPointRemovedHandler(dev, apPath)
    /\ ser' = AccessPointRemovedHandler(ser, apPath)
    /\ last' = Step("AccessPointRemoved", apPath,
                    MapGet(dev.accessPointPathMap, apPath), "ok", FALSE)
    /\ nEvents' = nEvents + 1
    /\ UNCHANGED << pc, boot, handlers, source, decoded >>

AccessPointRemoved == \E apPath \in ApPaths : AccessPointRemovedOf(apPath)

\* A BSSAdded signal arrives: the handler formats the BSSID, starts and
\* suspends at getProxyObject / getInterface
BSSAdded ==
    /\ CanDeliver
    /\ \E bssPath \in BssPaths, bssid \in Bssids, ok \in BOOLEAN :
        /\ handlers' = handlers \cup
              {Suspended(nEvents + 1, "BSSAdded", bssPath, bssid, None, ok, 0,
                         NoParams, None)}
        /\ ser' = BSSAddedHandler(ser, bssPath, bssid, ok)
        /\ last' = Step("BSSAdded", bssPath, bssid, "awaiting", FALSE)
    /\ nEvents' = nEvents + 1
    /\ UNCHANGED << pc, boot, dev, source, decoded >>

BSSAddedDone ==
    /\ \E h \in handlers :
        /\ h.kind = "BSSAdded"
        /\ dev' = BSSAddedHandler(dev, h.path, h.bssid, h.ok)
        /\ handlers' = handlers \ {h}
        /\ last' = Step("BSSAdded", h.path, h.bssid, IF h.ok THEN "ok" ELSE "caught", FALSE)
    /\ UNCHANGED << pc, boot, ser, nEvents, source, decoded >>

BSSRemovedOf(bssPath) ==
    /\ CanDeliver
    /\ dev' = BSSRemovedHandler(dev, bssPath)
    /\ ser' = BSSRemovedHandler(ser, bssPath)
    /\ last' = Step("BSSRemoved", bssPath, MapGet(dev.bssPathMap, bssPath), "ok", FALSE)
    /\ nEvents' = nEvents + 1
    /\ UNCHANGED << pc, boot, handlers, source, decoded >>

BSSRemoved == \E bssPath \in BssPaths : BSSRemovedOf(bssPath)

\* A PropertiesChanged signal reaches one registered listener s.  The handler
\* runs to its end, or to the await of _getUptime, whose outcome is fixed here
\* so that the serial execution sees the same one.
PropertiesChangedOn(s, params, uptime) ==
    /\ CanDeliver
    /\ s \in 1..Len(dev.subs)
    /\ LET bssid == dev.subs[s].bssid
           r == Resolve(dev, bssid)
           whole == PropertiesChangedHandler(dev, bssid, params, uptime)
       IN /\ dev.subs[s].live
          /\ ser' = PropertiesChangedHandler(ser, bssid, params, uptime).dev
          /\ IF Suspends(dev, bssid, params)
             THEN /\ handlers' = handlers \cup
                       {Suspended(nEvents + 1, "PropertiesChanged", r.apPath, bssid,
                                  None, TRUE, r.props, params, uptime)}
                  /\ dev' = dev
                  /\ last' = Step("PropertiesChanged", r.apPath, bssid, "awaiting", FALSE)
             ELSE /\ handlers' = handlers
                  /\ dev' = whole.dev
                  /\ last' = Step("PropertiesChanged", r.apPath, bssid, whole.outcome,
                                  r.found /\ r.props = 0)
    /\ nEvents' = nEvents + 1
    /\ UNCHANGED << pc, boot, source, decoded >>

PropertiesChanged ==
    \E s \in 1..Len(dev.subs), params \in ChangeSets, uptime \in UptimeResults :
        PropertiesChangedOn(s, params, uptime)

\* _getUptime settles and the PropertiesChanged handler runs to its end,
\* writing through the props reference it read before the await
UptimeRead ==
    /\ \E h \in handlers :
        /\ h.kind = "PropertiesChanged"
        /\ LET rest == AfterUptime(dev, h.props, h.params, h.uptime)
           IN /\ dev' = rest.dev
              /\ last' = Step("PropertiesChanged", h.path, h.bssid, rest.outcome, FALSE)
        /\ handlers' = handlers \ {h}
    /\ UNCHANGED << pc, boot, ser, nEvents, source, decoded >>

Next ==
    \/ GetBSSs
    \/ GetBSSsDone
    \/ GetAccessPointData
    \/ Construct
    \/ AccessPointAdded
    \/ AccessPointAddedDone
    \/ AccessPointRemoved
    \/ BSSAdded
    \/ BSSAddedDone
    \/ BSSRemoved
    \/ PropertiesChanged
    \/ UptimeRead

Spec == Init /\ [][Next]_vars

\* The same machine with the handlers run one at a time: no signal is
\* delivered while a handler is suspended.
\* WifiDevice.init alone, up to the constructed device
InitBoot == Start(MaxBootOnlyBss, MaxBootAps)

NextBoot ==
    \/ GetBSSs
    \/ GetBSSsDone
    \/ GetAccessPointData
    \/ Construct

SpecBoot == InitBoot /\ [][NextBoot]_vars

\* ---------------------------------------------- securityFromDict on its own
KeyMgmtTokens == {"wpa-psk", "sae", "ccmp", "wpa3-unknown"}
PairwiseTokens == {"ccmp", "tkip", "wpa3-unknown"}
GroupTokens == {"ccmp", "wep40", "wpa3-unknown"}

\* The lists of at most MaxTokens tokens, repeats included
TokenLists(tokens) == UNION {[1..n -> tokens] : n \in 0..MaxTokens}

\* The dictionaries the supplicant may report as WPA or RSN
SecurityDicts ==
    [KeyMgmt : {None} \cup {Some(l) : l \in TokenLists(KeyMgmtTokens)},
     Pairwise : {None} \cup {Some(l) : l \in TokenLists(PairwiseTokens)},
     Group : {None} \cup {Some(t) : t \in GroupTokens}]

InitDecoder ==
    /\ pc = "securityFromDict"
    /\ boot = [bss |-> << >>, aps |-> << >>, i |-> 1]
    /\ dev = EmptyDevice
    /\ ser = EmptyDevice
    /\ handlers = {}
    /\ nEvents = 0
    /\ last = Step("none", Undefined, Undefined, "ok", FALSE)
    /\ source = {}
    /\ decoded \in {[security |-> d, flags |-> None] : d \in SecurityDicts}

\* securityFromDict(security) returns
Decode ==
    /\ pc = "securityFromDict"
    /\ decoded.flags = None
    /\ decoded' = [decoded EXCEPT !.flags = Some(securityFromDict(decoded.security))]
    /\ UNCHANGED << pc, boot, dev, ser, handlers, nEvents, last, source >>

SpecDecoder == InitDecoder /\ [][Decode]_vars

\* --------------------------------- the device beside its primary source
\* Here the AccessPointAdded and AccessPointRemoved signals are the ones
\* NetworkManager sends when an access point appears or disappears, and a
\* fetch succeeds exactly when the object still exists.
HwAddressOf(apPath) ==
    IF apPath = "/ap/1" THEN "AA:BB:CC:DD:EE:01" ELSE "AA:BB:CC:DD:EE:02"

SourceFetch(apPath) == IF apPath \in source THEN Some(HwAddressOf(apPath)) ELSE None

\* init has read the AccessPoints property and has not yet constructed the
\* device, whose constructor registers the signal listeners
BeforeListeners == pc \in {"getBSSs", "getAccessPointData"}

PrimaryGetAccessPointData ==
    /\ pc = "getAccessPointData"
    /\ boot.i <= Len(boot.aps)
    /\ GetAccessPointDataOf(SourceFetch(boot.aps[boot.i]))

\* An access point appears at the source before the listeners exist: the
\* signal has no receiver
UnheardAccessPointAdded ==
    /\ BeforeListeners
    /\ nEvents < MaxEvents
    /\ \E apPath \in ApPaths \ source : source' = source \cup {apPath}
    /\ nEvents' = nEvents + 1
    /\ UNCHANGED << pc, boot, dev, ser, handlers, last, decoded >>

\* An access point disappears at the source before the listeners exist
UnheardAccessPointRemoved ==
    /\ BeforeListeners
    /\ nEvents < MaxEvents
    /\ \E apPath \in source : source' = source \ {apPath}
    /\ nEvents' = nEvents + 1
    /\ UNCHANGED << pc, boot, dev, ser, handlers, last, decoded >>

\* An access point appears at the source of the constructed device: the
\* AccessPointAdded handler starts and suspends at its fetch
SourceAccessPointAdded ==
    /\ CanDeliver
    /\ \E apPath \in ApPaths \ source :
        /\ source' = source \cup {apPath}
        /\ handlers' = handlers \cup
              {Suspended(nEvents + 1, "AccessPointAdded", apPath, Undefined,
                         None, TRUE, 0, NoParams, None)}
        /\ last' = Step("AccessPointAdded", apPath, Undefined, "awaiting", FALSE)
    /\ nEvents' = nEvents + 1
    /\ UNCHANGED << pc, boot, dev, ser, decoded >>

\* The fetch settles against the source as it is now
PrimaryAccessPointAddedDone ==
    /\ \E h \in handlers :
        /\ h.kind = "AccessPointAdded"
        /\ dev' = AccessPointAddedHandler(dev, h.path, SourceFetch(h.path))
        /\ handlers' = handlers \ {h}
        /\ last' = IF SourceFetch(h.path) = None
                   THEN Step("AccessPointAdded", h.path, Undefined, "caught", FALSE)
                   ELSE Step("AccessPointAdded", h.path, HwAddressOf(h.path), "ok", FALSE)
    /\ UNCHANGED << pc, boot, ser, nEvents, source, decoded >>

\* An access point disappears at the source of the constructed device: the
\* AccessPointRemoved handler runs
SourceAccessPointRemoved ==
    /\ CanDeliver
    /\ \E apPath \in source :
        /\ source' = source \ {apPath}
        /\ dev' = AccessPointRemovedHandler(dev, apPath)
        /\ last' = Step("AccessPointRemoved", apPath,
                        MapGet(dev.accessPointPathMap, apPath), "ok", FALSE)
    /\ nEvents' = nEvents + 1
    /\ UNCHANGED << pc, boot, ser, handlers, decoded >>

NextPrimary ==
    \/ GetBSSs
    \/ GetBSSsDone
    \/ PrimaryGetAccessPointData
    \/ Construct
    \/ UnheardAccessPointAdded
    \/ UnheardAccessPointRemoved
    \/ SourceAccessPointAdded
    \/ PrimaryAccessPointAddedDone
    \/ SourceAccessPointRemoved

SpecPrimary == Init /\ [][NextPrimary]_vars

Idle == handlers = {}

SerialNext ==
    \/ GetBSSs
    \/ GetBSSsDone
    \/ GetAccessPointData
    \/ Construct
    \/ Idle /\ AccessPointAdded
    \/ AccessPointAddedDone
    \/ Idle /\ AccessPointRemoved
    \/ Idle /\ BSSAdded
    \/ BSSAddedDone
    \/ Idle /\ BSSRemoved
    \/ Idle /\ PropertiesChanged
    \/ UptimeRead

SpecSerial == Init /\ [][SerialNext]_vars

\* ------------------------------------------------------------ the claims
\* What the device shows: each path's record (by value)
Registry(d) == Deref(d, d.accessPoints)

\* The listeners on BSS property changes whose closure holds bssid and that
\* have not been unsubscribed
LiveSubs(d, bssid) ==
    {s \in 1..Len(d.subs) : d.subs[s].live /\ d.subs[s].bssid = bssid}

\* The subscription table, each handle replaced by what it is a handle of
ListenerTable(d) == [k \in DOMAIN d.bssListeners |-> d.subs[d.bssListeners[k]]]

\* C1: once the BSSRemoved handler has run for a path that was mapped to
\* identity H, every PropertiesChanged subscription made for H is unsubscribed
\* and the subscription table no longer records one under H.
C1_RemovedBssIsUnsubscribed ==
    (last.op = "BSSRemoved" /\ last.bssid # Undefined) =>
        /\ LiveSubs(dev, last.bssid) = {}
        /\ last.bssid \notin DOMAIN dev.bssListeners

\* C2: at any time an identity has at most one live PropertiesChanged
\* subscription, and exactly one while the secondary index maps it to a path
\* (it is Subscribed).
C2_OneLiveSubscriptionPerIdentity ==
    pc = "run" =>
        \A h \in Bssids :
            /\ Cardinality(LiveSubs(dev, h)) <= 1
            /\ h \in DOMAIN dev.bssPathMap => Cardinality(LiveSubs(dev, h)) = 1

\* C3: once every handler has completed, the registry, both index maps and
\* the subscription table are those of the execution that ran each handler to
\* completion before the next event was delivered.
SerialView(d) ==
    [registry |-> Registry(d), accessPointPathMap |-> d.accessPointPathMap,
     bssPathMap |-> d.bssPathMap, listeners |-> ListenerTable(d)]

C3_AsIfSerialized ==
    (pc = "run" /\ handlers = {}) => SerialView(dev) = SerialView(ser)

\* C4: with handlers run one at a time, each index map is symmetric: it holds
\* k -> v exactly when it holds v -> k.
Symmetric(m) == \A k \in DOMAIN m : m[k] \in DOMAIN m /\ m[m[k]] = k

C4_IndexMapsSymmetric ==
    Symmetric(dev.accessPointPathMap) /\ Symmetric(dev.bssPathMap)

\* C5: every step of the running device that changes the registry (a record
\* inserted, removed or patched) emits the snapshot exactly once.
C5_OneEmissionPerMutation ==
    [][(pc = "run" /\ Registry(dev') # Registry(dev))
          => Len(dev'.published) = Len(dev.published) + 1]_vars

\* C6: a snapshot that was emitted still shows what it showed when it was
\* emitted: no later insert, delete or patch changes it.
C6_EmittedSnapshotsNeverChange ==
    \A i \in 1..Len(dev.published) :
        Deref(dev, dev.published[i].snap) = dev.published[i].seen

\* C7: a PropertiesChanged handler that resolves its identity to a primary
\* path at which the registry holds no record completes without throwing.
C7_DesyncDoesNotThrow ==
    (last.op = "PropertiesChanged" /\ last.absent) => last.outcome # "threw"

\* C8: a patch aimed at a path the registry does not hold (the handler
\* resolved its identity to such a path) ends in an error, not as a successful
\* patch does, and leaves the registry as it was.
C8_PatchOfAbsentPathReportsError ==
    [][(nEvents' = nEvents + 1 /\ last'.op = "PropertiesChanged" /\ last'.absent)
          => /\ last'.outcome # "ok"
             /\ dev'.accessPoints = dev.accessPoints
             /\ Registry(dev') = Registry(dev)]_vars

\* C9: AccessPointRemoved(P) removes the record at P and P's own two index
\* entries (P -> H, and H -> P when H maps to P), and nothing else: the other
\* records, the other primary index entries, the secondary index map and the
\* subscriptions are unchanged.
WithoutEntryOf(m, apPath) ==
    LET h == MapGet(m, apPath)
        own == {apPath} \cup {k \in DOMAIN m : k = h /\ m[k] = apPath}
    IN [k \in (DOMAIN m) \ own |-> m[k]]

C9_RemoveTouchesOnlyItsOwnEntries ==
    [][(nEvents' = nEvents + 1 /\ last'.op = "AccessPointRemoved")
          => /\ Registry(dev') = MapDelete(Registry(dev), last'.path)
             /\ dev'.accessPointPathMap =
                    WithoutEntryOf(dev.accessPointPathMap, last'.path)
             /\ dev'.bssPathMap = dev.bssPathMap
             /\ dev'.bssListeners = dev.bssListeners
             /\ dev'.subs = dev.subs]_vars

\* C10: a failed property fetch for one access point during phase 2 of the
\* bootstrap does not abort init.
C10_BootFetchFailureDoesNotAbort ==
    (last.op = "getAccessPointData" /\ last.outcome = "threw") => pc # "failed"

\* A step that delivers an event of the given kind to its handler
Delivers(op) == nEvents' = nEvents + 1 /\ last'.op = op

\* The PropertiesChanged handlers that a step resumes after their uptime read
Resumed == {h \in handlers \ handlers' : h.kind = "PropertiesChanged"}

\* C11: when the uptime read fails, the Frequency, WPA and RSN changes that
\* came in the same event as Age are still written to the record.
C11_UptimeFailureKeepsOtherFields ==
    [][\A h \in Resumed :
          h.uptime = None =>
            /\ h.params.Frequency # None =>
                 dev'.heap[h.props].Frequency = h.params.Frequency[1]
            /\ h.params.WPA # None =>
                 dev'.heap[h.props].WpaFlags = securityFromDict(h.params.WPA[1])
            /\ h.params.RSN # None =>
                 dev'.heap[h.props].RsnFlags = securityFromDict(h.params.RSN[1])]_vars

\* C12: a PropertiesChanged event for an identity that the primary index or
\* the secondary index does not map is dropped: the handler returns without
\* an error, the device (registry, both index maps, subscriptions, emissions)
\* is as it was and no handler is left pending.
C12_UncorrelatedEventIsDropped ==
    [][Delivers("PropertiesChanged") =>
       \A s \in 1..Len(dev.subs), params \in ChangeSets, uptime \in UptimeResults :
          (/\ PropertiesChangedOn(s, params, uptime)
           /\ \/ MapGet(dev.accessPointPathMap, dev.subs[s].bssid) = Undefined
              \/ MapGet(dev.bssPathMap, dev.subs[s].bssid) = Undefined)
          => /\ dev' = dev
             /\ handlers' = handlers
             /\ last'.outcome = "dropped"]_vars

\* An event was dropped for a BSS whose access point is not announced, while
\* the registry holds a record of another access point
C12_Witness ==
    /\ last.op = "PropertiesChanged"
    /\ last.outcome = "dropped"
    /\ last.bssid \in DOMAIN dev.bssPathMap
    /\ last.bssid \notin DOMAIN dev.accessPointPathMap
    /\ DOMAIN dev.accessPoints # {}

\* C16: an event carrying Age = a whose lookups resolved to a record, handled
\* when /proc/uptime reads u whole seconds, sets the last-seen of that record
\* to u + a.
C16_LastSeenIsUptimePlusAge ==
    [][\A h \in Resumed :
          h.uptime # None =>
            dev'.heap[h.props].LastSeen = h.uptime[1].whole + h.params.Age[1]]_vars

\* Age = 5 arrived at uptime 100 and a record of the registry has last-seen 105
C16_Witness ==
    /\ last.op = "PropertiesChanged"
    /\ last.outcome = "ok"
    /\ \E apPath \in DOMAIN dev.accessPoints :
          dev.heap[dev.accessPoints[apPath]].LastSeen = 105

\* C17: a handler that resumes after its uptime read writes its patch only to
\* the record that the registry holds at the handler's path at that moment; a
\* remove or a replacing add of the path has not slipped in between the
\* handler's lookup and its writes.
C17_PatchGoesToCurrentRecord ==
    [][\A h \in Resumed :
          dev'.heap[h.props] # dev.heap[h.props] =>
            /\ h.path \in DOMAIN dev.accessPoints
            /\ dev.accessPoints[h.path] = h.props]_vars

\* The record fields that a change set names
Named(params) ==
    (IF params.Age # None THEN {"LastSeen"} ELSE {})
    \cup (IF params.Frequency # None THEN {"Frequency"} ELSE {})
    \cup (IF params.WPA # None THEN {"WpaFlags"} ELSE {})
    \cup (IF params.RSN # None THEN {"RsnFlags"} ELSE {})

\* A step changes at most the named fields of the record target
OnlyNamedFieldsChange(target, params) ==
    /\ dev'.accessPoints = dev.accessPoints
    /\ dev'.bssPathMap = dev.bssPathMap
    /\ dev'.accessPointPathMap = dev.accessPointPathMap
    /\ DOMAIN dev'.heap = DOMAIN dev.heap
    /\ \A a \in DOMAIN dev.heap :
          IF a = target
          THEN \A f \in (DOMAIN dev.heap[a]) \ Named(params) :
                  dev'.heap[a][f] = dev.heap[a][f]
          ELSE dev'.heap[a] = dev.heap[a]

\* C18: a PropertiesChanged event changes only the record that its handler
\* resolved for the identity, and in it only the fields the event names; the
\* other fields, the other records, the registry's paths and both index maps
\* are as before, both when the handler runs straight through and when it
\* resumes after the uptime read.
C18_PatchChangesOnlyNamedFields ==
    [][/\ Delivers("PropertiesChanged") =>
            \A s \in 1..Len(dev.subs), params \in ChangeSets, uptime \in UptimeResults :
               PropertiesChangedOn(s, params, uptime) =>
                  OnlyNamedFieldsChange(Resolve(dev, dev.subs[s].bssid).props, params)
       /\ \A h \in Resumed : OnlyNamedFieldsChange(h.props, h.params)]_vars

\* An event changed the frequency of one record while the registry holds
\* another record that kept its own
C18_Witness ==
    /\ last.op = "PropertiesChanged"
    /\ last.outcome = "ok"
    /\ \E p, q \in DOMAIN dev.accessPoints :
          /\ dev.heap[dev.accessPoints[p]].Frequency = 5180
          /\ dev.heap[dev.accessPoints[q]].Frequency = 2412

\* The paths the bootstrap enumerated
BootAps == {boot.aps[i] : i \in 1..Len(boot.aps)}
BootBss == {boot.bss[i] : i \in 1..Len(boot.bss)}

\* C19: the paths that have a record in the registry are exactly the paths
\* that have a path -> identity entry in the primary index map.
C19_RegistryPathsAreIndexedPaths ==
    DOMAIN dev.accessPoints = (DOMAIN dev.accessPointPathMap) \cap ApPaths

\* An indexed access point was removed while the registry holds a record
\* that an AccessPointAdded event put there
C19_Witness ==
    /\ last.op = "AccessPointRemoved"
    /\ last.bssid # Undefined
    /\ \E apPath \in DOMAIN dev.accessPoints : apPath \notin BootAps

\* A removal left the index maps, the subscriptions and the registry's
\* records as they were, and raised nothing
RemovalIsNoOp ==
    /\ dev'.accessPointPathMap = dev.accessPointPathMap
    /\ dev'.bssPathMap = dev.bssPathMap
    /\ dev'.bssListeners = dev.bssListeners
    /\ dev'.subs = dev.subs
    /\ Registry(dev') = Registry(dev)
    /\ handlers' = handlers
    /\ last'.outcome = "ok"

\* C14: an AccessPointRemoved event for a path that neither the primary
\* index nor the registry knows, and a BSSRemoved event for a path that the
\* secondary index does not know, raise nothing and leave both index maps,
\* the subscription table and the registry's records unchanged.
C14_RemoveOfUnknownPathIsNoOp ==
    [][/\ \A apPath \in ApPaths :
            (/\ AccessPointRemovedOf(apPath)
             /\ apPath \notin DOMAIN dev.accessPointPathMap
             /\ apPath \notin DOMAIN dev.accessPoints) => RemovalIsNoOp
       /\ \A bssPath \in BssPaths :
            (/\ BSSRemovedOf(bssPath)
             /\ bssPath \notin DOMAIN dev.bssPathMap) => RemovalIsNoOp]_vars

\* An AccessPointRemoved event arrived for a path without an index entry
\* while other access points are indexed and recorded
C14_Witness ==
    /\ last.op = "AccessPointRemoved"
    /\ last.bssid = Undefined
    /\ DOMAIN dev.accessPointPathMap # {}
    /\ DOMAIN dev.accessPoints # {}

\* The bootstrap read a different identity from each object it enumerated
DistinctIdentities ==
    /\ \A p, q \in BootAps :
          p # q => MapGet(dev.accessPointPathMap, p) # MapGet(dev.accessPointPathMap, q)
    /\ \A b, c \in BootBss :
          b # c => MapGet(dev.bssPathMap, b) # MapGet(dev.bssPathMap, c)

\* The SSID text of the access points at the source
SsidText(apPath) == IF apPath = "/ap/1" THEN "Home" ELSE "Cafe"

\* C13: when the bootstrap has enumerated the BSS objects S and the access
\* points A, every fetch has succeeded and the identities are distinct, the
\* constructed device has exactly one record per path of A with the SSID as
\* text, the primary index maps every path of A to its identity and back and
\* nothing else, the secondary index maps every path of S to its identity
\* and back and nothing else, and every identity of S has exactly one live
\* subscription, the one the subscription table records.
C13_BootstrapBuildsRegistryAndIndexes ==
    (last.op = "constructor" /\ DistinctIdentities) =>
        /\ DOMAIN dev.accessPoints = BootAps
        /\ \A p \in BootAps :
              LET hw == Registry(dev)[p].HwAddress
              IN /\ Registry(dev)[p].Ssid = SsidText(p)
                 /\ MapGet(dev.accessPointPathMap, p) = hw
                 /\ MapGet(dev.accessPointPathMap, hw) = p
        /\ Cardinality(DOMAIN dev.accessPointPathMap) = 2 * Cardinality(BootAps)
        /\ \A b \in BootBss :
              LET bssid == MapGet(dev.bssPathMap, b)
              IN /\ bssid \in Bssids
                 /\ MapGet(dev.bssPathMap, bssid) = b
                 /\ Cardinality(LiveSubs(dev, bssid)) = 1
                 /\ ListenerGet(dev, bssid) \in LiveSubs(dev, bssid)
        /\ Cardinality(DOMAIN dev.bssPathMap) = 2 * Cardinality(BootBss)
        /\ Len(dev.subs) = Cardinality(BootBss)
        /\ Cardinality(DOMAIN dev.bssListeners) = Cardinality(BootBss)

\* The device was constructed from two BSS objects and two access points of
\* distinct identities
C13_Witness ==
    /\ last.op = "constructor"
    /\ DistinctIdentities
    /\ Cardinality(BootAps) = 2
    /\ Cardinality(BootBss) = 2

\* The bit of each recognized token, by the key it stands under
KeyMgmtBit(t) ==
    CASE t = "wpa-psk" -> NM_802_11_AP_SEC_KEY_MGMT_PSK
      [] t = "sae" -> NM_802_11_AP_SEC_KEY_MGMT_SAE
      [] OTHER -> 0
PairwiseBit(t) ==
    CASE t = "ccmp" -> NM_802_11_AP_SEC_PAIR_CCMP
      [] t = "tkip" -> NM_802_11_AP_SEC_PAIR_TKIP
      [] OTHER -> 0
GroupBit(t) ==
    CASE t = "ccmp" -> NM_802_11_AP_SEC_GROUP_CCMP
      [] t = "wep40" -> NM_802_11_AP_SEC_GROUP_WEP40
      [] OTHER -> 0

\* The distinct bits of the recognized tokens present in a dictionary
BitsPresent(security) ==
    ((IF security.KeyMgmt = None THEN {}
      ELSE {KeyMgmtBit(security.KeyMgmt[1][i]) : i \in 1..Len(security.KeyMgmt[1])})
     \cup (IF security.Pairwise = None THEN {}
           ELSE {PairwiseBit(security.Pairwise[1][i]) : i \in 1..Len(security.Pairwise[1])})
     \cup (IF security.Group = None THEN {} ELSE {GroupBit(security.Group[1])}))
    \ {0}

\* The mask holding exactly the given distinct bits
RECURSIVE MaskOf(_)
MaskOf(bits) ==
    IF bits = {} THEN 0
    ELSE LET b == CHOOSE x \in bits : TRUE IN b + MaskOf(bits \ {b})

\* C15: securityFromDict returns the mask that holds exactly the bits of the
\* recognized tokens present, each once however often its token occurs: 0
\* for the empty dictionary, PSK | PAIR_CCMP | GROUP_CCMP (256 + 8 + 128) for
\* {KeyMgmt: [wpa-psk], Pairwise: [ccmp], Group: ccmp}, and unrecognized
\* tokens add nothing.
C15_DecoderIsOrOfRecognizedTokens ==
    decoded.flags # None =>
        /\ decoded.flags[1] = MaskOf(BitsPresent(decoded.security))
        /\ decoded.security = EmptyDict => decoded.flags[1] = 0
        /\ decoded.security = PskCcmp => decoded.flags[1] = 392

\* A dictionary that repeats a recognized token beside an unrecognized one
\* was decoded
C15_Witness ==
    /\ decoded.flags # None
    /\ decoded.security.KeyMgmt = Some(<< "wpa-psk", "wpa3-unknown" >>)
    /\ decoded.security.Pairwise = Some(<< "ccmp", "ccmp" >>)
    /\ decoded.security.Group = Some("ccmp")

\* C20: whenever the device is constructed and no handler is pending, the
\* registry's paths are the access points that exist at the primary source,
\* also when access points appeared or disappeared there between init's
\* enumeration and the registration of the listeners.
C20_RegistryFollowsPrimarySource ==
    (pc = "run" /\ handlers = {}) => DOMAIN dev.accessPoints = source

====
